---- MODULE Spec2Model ----
(***************************************************************************)
(* Inventory-aging dashboard (src/variance.py): the load_data ->           *)
(* transform_data -> category filter -> groupby pipeline that every        *)
(* Streamlit script run executes, with the st.cache_data memo of           *)
(* load_data and the spreadsheet files it reads.                           *)
(*                                                                         *)
(* Representation.                                                         *)
(*  - A cell is a sequence of length at most one: <<>> is a missing value  *)
(*    (pandas NaN), <<x>> the value x.                                     *)
(*  - A column name is the sequence of its space-separated words:          *)
(*    "61-90 Aging Qty" is <<"61-90", "Aging", "Qty">>.  Substring tests   *)
(*    and str.replace are computed on words; the column vocabulary below   *)
(*    has no word that contains another one, so this agrees with the       *)
(*    character-level result.                                              *)
(*  - A wide DataFrame is [columns, rows]: the column names in order and   *)
(*    the rows in order, each row a function from the column names to      *)
(*    cells.  A long (melted) table is a sequence of records.              *)
(***************************************************************************)
EXTENDS Integers, Sequences, FiniteSets, TLC

VARIABLES
    files,                     \* file name -> [status, columns, rows]: the spreadsheets on disk
    cache,                     \* st.cache_data store of load_data: selection -> returned value
    selected_outlet_single,    \* the sidebar selectbox value of the last run
    df_wide_original,          \* load_data's result in the last run
    df_combined_long,          \* transform_data's result in the last run
    selected_categories,       \* the category filter of the last run
    df_filtered_long_grouped,  \* the grouped table of the last run
    df_filtered_wide,          \* the filtered wide table of the last run (tab 3)
    metric_col,                \* 'Qty' or 'Value', from the metric radio
    messages,                  \* st.warning / st.error / st.info calls of the last run
    outcome,                   \* how far the last run got
    table_is_current           \* the table the last run used equals what the sources held then

vars == <<files, cache, selected_outlet_single, df_wide_original, df_combined_long,
          selected_categories, df_filtered_long_grouped, df_filtered_wide, metric_col,
          messages, outcome, table_is_current>>

---------------------------------------------------------------------------
(* Cells, strings, sequences *)

NaN == <<>>

ToSet(s) == {s[i] : i \in 1..Len(s)}

RECURSIVE Flatten(_)
Flatten(ss) == IF ss = <<>> THEN <<>> ELSE Head(ss) \o Flatten(Tail(ss))

RECURSIVE unique(_)
\* Series.unique(): the distinct values in order of first appearance
unique(s) ==
    IF s = <<>> THEN <<>>
    ELSE LET u == unique(SubSeq(s, 1, Len(s) - 1))
             x == s[Len(s)]
         IN  IF x \in ToSet(u) THEN u ELSE Append(u, x)

\* 'Qty' in col
Contains(col, word) == \E i \in 1..Len(col) : col[i] = word

\* whether " old" (a space, then the words of old) starts at word i of s
MatchAt(s, old, i) ==
    /\ i >= 2
    /\ i + Len(old) - 1 <= Len(s)
    /\ \A k \in 1..Len(old) : s[i + k - 1] = old[k]

RECURSIVE ReplaceFrom(_, _, _)
ReplaceFrom(s, old, i) ==
    IF i > Len(s) THEN <<>>
    ELSE IF MatchAt(s, old, i) THEN ReplaceFrom(s, old, i + Len(old))
    ELSE <<s[i]>> \o ReplaceFrom(s, old, i + 1)

\* s.str.replace(' ' + old, '', regex=False)
str_replace(s, old) == ReplaceFrom(s, old, 1)

---------------------------------------------------------------------------
(* 0. Configuration *)

\* The catalog: two of the seventeen entries of OUTLET_FILES (the second one
\* is the entry whose file name differs from its code).
OUTLET_FILES == ("AML" :> "AML.xlsx") @@ ("ATT" :> "AZT.xlsx")

ALL_OUTLETS == <<"AML", "ATT">>

AGGREGATE_OPTION == "ALL OUTLETS (Aggregated)"

OUTLET_OPTIONS == <<AGGREGATE_OPTION>> \o ALL_OUTLETS

FILE_NAMES == {OUTLET_FILES[o] : o \in DOMAIN OUTLET_FILES}

age_order == << <<"61-90">>, <<"91-120">>, <<"121-180">>, <<"181-360">> >>

COL_OUTLET == <<"Outlet">>

COL_CATEGORY == <<"Category">>

---------------------------------------------------------------------------
(* 1. load_data *)

EmptyFrame == [columns |-> <<>>, rows |-> <<>>]

\* DataFrame.empty: no columns or no rows
IsEmpty(df) == Len(df.columns) = 0 \/ Len(df.rows) = 0

\* df['Outlet'] = outlet_code
TagOutlet(df, outlet_code) ==
    [columns |-> IF COL_OUTLET \in ToSet(df.columns) THEN df.columns
                 ELSE Append(df.columns, COL_OUTLET),
     rows |-> [i \in 1..Len(df.rows) |->
                 [c \in ToSet(df.columns) \cup {COL_OUTLET} |->
                     IF c = COL_OUTLET THEN <<outlet_code>> ELSE df.rows[i][c]]]]

RECURSIVE LoadLoopAbort(_, _, _, _)
\* a faulty loop: the first file that cannot be read ends the loop
LoadLoopAbort(outlets_to_load, catalog, fs, acc) ==
    IF outlets_to_load = <<>> THEN acc
    ELSE LET outlet_code == Head(outlets_to_load)
         IN  IF outlet_code \notin DOMAIN catalog
             THEN LoadLoopAbort(Tail(outlets_to_load), catalog, fs, acc)
             ELSE IF fs[catalog[outlet_code]].status # "ok"
             THEN [acc EXCEPT !.msgs = Append(@,
                      [level |-> "error", outlet |-> outlet_code,
                       text |-> "error while reading file"])]
             ELSE LoadLoopAbort(Tail(outlets_to_load), catalog, fs,
                      [acc EXCEPT !.all_dfs = Append(@,
                          TagOutlet([columns |-> fs[catalog[outlet_code]].columns,
                                     rows |-> fs[catalog[outlet_code]].rows],
                                    outlet_code))])

RECURSIVE LoadLoop(_, _, _, _)
\* the for loop of load_data over outlets_to_load; acc is [all_dfs, msgs]
LoadLoop(outlets_to_load, catalog, fs, acc) ==
    IF outlets_to_load = <<>> THEN acc
    ELSE LET outlet_code == Head(outlets_to_load)
             step ==
                 IF outlet_code \notin DOMAIN catalog THEN acc
                 ELSE LET file_name == catalog[outlet_code]
                          f == fs[file_name]
                      IN  CASE f.status = "missing" ->
                                 [acc EXCEPT !.msgs = Append(@,
                                     [level |-> "warning", outlet |-> outlet_code,
                                      text |-> "file not found, skipping"])]
                            [] f.status = "unreadable" ->
                                 [acc EXCEPT !.msgs = Append(@,
                                     [level |-> "error", outlet |-> outlet_code,
                                      text |-> "error while reading file"])]
                            [] OTHER ->
                                 [acc EXCEPT !.all_dfs = Append(@,
                                     TagOutlet([columns |-> f.columns, rows |-> f.rows],
                                               outlet_code))]
         IN  LoadLoop(Tail(outlets_to_load), catalog, fs, step)

\* pd.concat(all_dfs, ignore_index=True): the union of the columns in order of
\* first appearance; a row has NaN in the columns its frame lacks
concat(all_dfs) ==
    LET columns == unique(Flatten([k \in 1..Len(all_dfs) |-> all_dfs[k].columns]))
        widen(r) == [c \in ToSet(columns) |-> IF c \in DOMAIN r THEN r[c] ELSE NaN]
    IN  [columns |-> columns,
         rows |-> Flatten([k \in 1..Len(all_dfs) |->
                     [i \in 1..Len(all_dfs[k].rows) |-> widen(all_dfs[k].rows[i])]])]

\* the body of load_data, for a catalog (all_outlets are its keys in order)
LoadFrom(selection, all_outlets, catalog, fs) ==
    LET outlets_to_load ==
            IF selection = AGGREGATE_OPTION THEN all_outlets ELSE <<selection>>
        read == LoadLoop(outlets_to_load, catalog, fs, [all_dfs |-> <<>>, msgs |-> <<>>])
    IN  IF outlets_to_load = <<>> THEN [df |-> EmptyFrame, msgs |-> <<>>]
        ELSE IF read.all_dfs # <<>>
             THEN [df |-> concat(read.all_dfs), msgs |-> read.msgs]
             ELSE [df |-> EmptyFrame,
                   msgs |-> Append(read.msgs,
                       [level |-> "error", outlet |-> selection,
                        text |-> "no valid data files were loaded"])]

\* load_data's body run on the files as they are
load_data_body(selection, fs) == LoadFrom(selection, ALL_OUTLETS, OUTLET_FILES, fs)

\* a faulty load_data: without the memo, the body runs on every call
load_data_unmemoized(selection, fs, store) == load_data_body(selection, fs)

\* @st.cache_data def load_data: a stored entry for the argument is returned
\* (its messages replayed) without running the body
load_data(selection, fs, store) ==
    IF selection \in DOMAIN store THEN store[selection]
    ELSE load_data_body(selection, fs)

\* the store after a call: the returned value is kept under the argument
cache_after(selection, fs, store) ==
    IF selection \in DOMAIN store THEN store
    ELSE (selection :> load_data_body(selection, fs)) @@ store

---------------------------------------------------------------------------
(* 2. transform_data *)

\* df.melt(id_vars=['Outlet','Category'], value_vars=[col for col in df.columns
\* if marker in col]): one row per value column and source row, column-major
melt(df, marker) ==
    LET value_vars == SelectSeq(df.columns, LAMBDA col : Contains(col, marker))
    IN  Flatten([j \in 1..Len(value_vars) |->
            [i \in 1..Len(df.rows) |->
                [Outlet |-> df.rows[i][COL_OUTLET],
                 Category |-> df.rows[i][COL_CATEGORY],
                 variable |-> value_vars[j],
                 value |-> df.rows[i][value_vars[j]]]]])

\* the 'Aging Bucket' column of a melted table
BucketOf(variable, marker) == str_replace(variable, <<"Aging", marker>>)

\* pd.merge(left, right, on=['Outlet','Category','Aging Bucket'])
merge(df_qty_long, df_value_long) ==
    Flatten([i \in 1..Len(df_qty_long) |->
        LET l == df_qty_long[i]
            hits == SelectSeq(df_value_long, LAMBDA r :
                        /\ r.Outlet = l.Outlet
                        /\ r.Category = l.Category
                        /\ BucketOf(r.variable, "Value") = BucketOf(l.variable, "Qty"))
        IN  [k \in 1..Len(hits) |->
                [Outlet |-> l.Outlet, Category |-> l.Category,
                 Bucket |-> BucketOf(l.variable, "Qty"),
                 Qty |-> l.value, Value |-> hits[k].value]]])

\* a faulty Categorical: a value that is no category is kept
Categorical_keep(label) == label

\* pd.Categorical(values, categories=age_order, ordered=True): a value that is
\* no category becomes NaN
Categorical(label) == IF label \in ToSet(age_order) THEN label ELSE NaN

\* a faulty fillna: missing values stay
fillna_keep(cell) == cell

\* Series.fillna(0)
fillna(cell) == IF cell = NaN THEN <<0>> ELSE cell

\* transform_data: [raised, rows]; raised is the KeyError of melt when an
\* id column is absent
transform_data(df) ==
    IF IsEmpty(df) THEN [raised |-> FALSE, rows |-> <<>>]
    ELSE IF ~ ({COL_OUTLET, COL_CATEGORY} \subseteq ToSet(df.columns))
    THEN [raised |-> TRUE, rows |-> <<>>]
    ELSE LET merged == merge(melt(df, "Qty"), melt(df, "Value"))
         IN  [raised |-> FALSE,
              rows |-> [i \in 1..Len(merged) |->
                          [Outlet |-> merged[i].Outlet,
                           Category |-> merged[i].Category,
                           Bucket |-> Categorical(merged[i].Bucket),
                           Qty |-> fillna(merged[i].Qty),
                           Value |-> fillna(merged[i].Value)]]]

---------------------------------------------------------------------------
(* 4. Sidebar filters, filtering and grouping *)

\* df_plot['Category'].unique().tolist()
CategoriesOf(df_long) == unique([i \in 1..Len(df_long) |-> df_long[i].Category])

\* df_plot[df_plot['Category'].isin(selected_categories)]
FilterLong(df_long, categories) ==
    SelectSeq(df_long, LAMBDA r : r.Category \in ToSet(categories))

\* df_wide_original[df_wide_original['Category'].isin(selected_categories)]
FilterWide(df, categories) ==
    [columns |-> df.columns,
     rows |-> SelectSeq(df.rows, LAMBDA r : r[COL_CATEGORY] \in ToSet(categories))]

RECURSIVE SumCells(_)
\* Series.sum(): missing values are skipped
SumCells(cells) ==
    IF cells = <<>> THEN 0
    ELSE (IF Head(cells) = NaN THEN 0 ELSE Head(cells)[1]) + SumCells(Tail(cells))

\* the rows of one group
GroupRows(df_long, category, bucket) ==
    SelectSeq(df_long, LAMBDA r : r.Category = category /\ r.Bucket = bucket)

\* df.groupby(['Category', 'Aging Bucket'])[['Qty', 'Value']].sum().reset_index():
\* rows with a missing key are left out (dropna=True); the categorical grouper
\* shows every category of age_order (observed=False).  The result's keys are
\* unique, so it is kept as a set of rows; their order is not modelled.
groupby_sum(df_long) ==
    LET categories == {df_long[i].Category : i \in 1..Len(df_long)} \ {NaN}
        total(rows) ==
            [Qty |-> SumCells([i \in 1..Len(rows) |-> rows[i].Qty]),
             Value |-> SumCells([i \in 1..Len(rows) |-> rows[i].Value])]
    IN  UNION {{[Category |-> c, Bucket |-> b, Qty |-> s.Qty, Value |-> s.Value] :
                   s \in {total(GroupRows(df_long, c, b))}} :
               c \in categories, b \in ToSet(age_order)}

---------------------------------------------------------------------------
(* 5. Visualization functions: the rows handed to the chart *)

\* df[(df['Aging Bucket'] == bucket) & (df[metric_col] > 0)]
plot_horizontal_bar(df, metric, bucket) ==
    {g \in df : g.Bucket = bucket /\ g[metric] > 0}

\* df[df[metric_col] > 0]
plot_treemap(df, metric) == {g \in df : g[metric] > 0}

---------------------------------------------------------------------------
(* One script run, in its three parts *)

\* lines 146-148: the cached load_data call
LoadPart(selection, fs, store) ==
    LET loaded == load_data(selection, fs, store)
    IN  [df |-> loaded.df, msgs |-> loaded.msgs,
         store |-> cache_after(selection, fs, store),
         current |-> loaded.df = load_data_body(selection, fs).df]

\* lines 149-154: transform_data and the st.stop() on an empty result; an
\* exception raised by transform_data is caught nowhere and ends the run
TransformPart(df) ==
    LET t == transform_data(df)
    IN  [rows |-> t.rows,
         outcome |-> IF t.raised THEN "exception"
                     ELSE IF t.rows = <<>> THEN "stopped_empty"
                     ELSE "transformed",
         msgs |-> IF ~ t.raised /\ t.rows = <<>>
                  THEN <<[level |-> "info", outlet |-> "",
                          text |-> "data loading failed or returned an empty set"]>>
                  ELSE <<>>]

\* lines 160-175: the metric radio
MetricOf(view_option) ==
    IF Contains(view_option, "(Qty)") THEN "Qty" ELSE "Value"

VIEW_OPTIONS == {<<"Aging", "Quantity", "(Qty)">>, <<"Aging", "Value", "(Value)">>}

\* lines 177-215: the category filter (st.stop() when nothing is selected),
\* the filtered long table grouped, and the filtered wide table
FilterPart(df_wide, df_long, select_all_categories, picked) ==
    LET all_categories == CategoriesOf(df_long)
        chosen == IF select_all_categories THEN all_categories
                  ELSE SelectSeq(all_categories, LAMBDA c : c \in picked)
    IN  IF chosen = <<>>
        THEN [outcome |-> "stopped_nocat", categories |-> chosen,
              grouped |-> {}, wide |-> EmptyFrame,
              msgs |-> <<[level |-> "warning", outlet |-> "",
                          text |-> "no categories selected"]>>]
        ELSE [outcome |-> "shown", categories |-> chosen,
              grouped |-> groupby_sum(FilterLong(df_long, chosen)),
              wide |-> FilterWide(df_wide, chosen),
              msgs |-> <<>>]

---------------------------------------------------------------------------
(* The spreadsheets *)

CATEGORIES == {"Phones", "TOTAL"}

\* the most rows the files hold in all
MaxRows == 2

\* a metric cell: missing, or a number
CELLS == {NaN, <<1>>}

QtyCol(bucket) == <<bucket, "Aging", "Qty">>

ValueCol(bucket) == <<bucket, "Aging", "Value">>

\* the sheets' headers: a well-formed one; one whose Qty and Value columns
\* are of different buckets; one with a misspelt Qty column; one with a
\* bucket outside age_order; one without the Category column
LAYOUTS ==
    { <<COL_CATEGORY, QtyCol("61-90"), ValueCol("61-90")>>,
      <<COL_CATEGORY, QtyCol("91-120"), ValueCol("61-90")>>,
      <<COL_CATEGORY, <<"181-360", "Agir", "Qty">>, ValueCol("181-360")>>,
      <<COL_CATEGORY, QtyCol("31-60"), ValueCol("31-60")>>,
      <<QtyCol("61-90"), ValueCol("61-90")>> }

\* the rows a sheet with these columns can hold
RowsOf(columns) ==
    LET metrics == ToSet(columns) \ {COL_CATEGORY}
    IN  IF COL_CATEGORY \in ToSet(columns)
        THEN {(COL_CATEGORY :> <<c>>) @@ m : c \in CATEGORIES, m \in [metrics -> CELLS]}
        ELSE [metrics -> CELLS]

\* the states of a file with n rows: n > 0 rows of one header; with no rows,
\* a blank sheet, or a file that cannot be read: it is missing, or damaged
\* (read_excel raises another exception)
FilesWithRows(n) ==
    IF n = 0
    THEN {[status |-> st, columns |-> <<>>, rows |-> <<>>] :
             st \in {"ok", "missing", "unreadable"}}
    ELSE UNION {{[status |-> "ok", columns |-> l, rows |-> rs] :
                    rs \in [1..n -> RowsOf(l)]} : l \in LAYOUTS}

\* the two sheets of the aggregation example: Phones, 5 / 100 and 3 / 50
EXAMPLE_FILES ==
    LET sheet(q, v) ==
            [status |-> "ok",
             columns |-> <<COL_CATEGORY, QtyCol("61-90"), ValueCol("61-90")>>,
             rows |-> <<(COL_CATEGORY :> <<"Phones">>) @@ (QtyCol("61-90") :> <<q>>)
                        @@ (ValueCol("61-90") :> <<v>>)>>]
    IN  ("AML.xlsx" :> sheet(5, 100)) @@ ("AZT.xlsx" :> sheet(3, 50))

---------------------------------------------------------------------------
(* State machine *)

NoRun ==
    /\ cache = <<>>
    /\ selected_outlet_single = ""
    /\ df_wide_original = EmptyFrame
    /\ df_combined_long = <<>>
    /\ selected_categories = <<>>
    /\ df_filtered_long_grouped = {}
    /\ df_filtered_wide = EmptyFrame
    /\ metric_col = ""
    /\ messages = <<>>
    /\ outcome = "none"
    /\ table_is_current = TRUE

\* a session on the example sheets
Init == files = EXAMPLE_FILES /\ NoRun

\* one pass over any bounded set of sheets
PipelineInit ==
    /\ \E a \in 0..MaxRows : \E b \in 0..(MaxRows - a) :
       \E x \in FilesWithRows(a) : \E y \in FilesWithRows(b) :
           files = ("AML.xlsx" :> x) @@ ("AZT.xlsx" :> y)
    /\ NoRun

\* what the category widgets can return: every category with the checkbox
\* ticked, else the categories picked in the multiselect
CategoryChoices(df_long) ==
    {<<TRUE, ToSet(CategoriesOf(df_long))>>} \cup
    {<<FALSE, picked>> : picked \in SUBSET ToSet(CategoriesOf(df_long))}

\* One interaction: the whole script reruns (lines 135-327)
Interact(selection, view_option) ==
    \E l \in {LoadPart(selection, files, cache)} :
    \E t \in {TransformPart(l.df)} :
    \E choice \in CategoryChoices(t.rows) :
    \E f \in {FilterPart(l.df, t.rows, choice[1], choice[2])} :
    \E shown \in {t.outcome = "transformed"} :
        /\ selected_outlet_single' = selection
        /\ cache' = l.store
        /\ df_wide_original' = l.df
        /\ table_is_current' = l.current
        /\ df_combined_long' = t.rows
        /\ metric_col' = IF shown THEN MetricOf(view_option) ELSE ""
        /\ selected_categories' = IF shown THEN f.categories ELSE <<>>
        /\ df_filtered_long_grouped' = IF shown THEN f.grouped ELSE {}
        /\ df_filtered_wide' = IF shown THEN f.wide ELSE EmptyFrame
        /\ messages' = l.msgs \o t.msgs \o (IF shown THEN f.msgs ELSE <<>>)
        /\ outcome' = IF shown THEN f.outcome ELSE t.outcome
        /\ UNCHANGED files

\* The file system: a sheet is deleted, damaged, or put back
FileRemoved(name) ==
    /\ files[name].status # "missing"
    /\ files' = [files EXCEPT ![name].status = "missing"]
    /\ UNCHANGED <<cache, selected_outlet_single, df_wide_original, df_combined_long,
                   selected_categories, df_filtered_long_grouped, df_filtered_wide,
                   metric_col, messages, outcome, table_is_current>>

FileDamaged(name) ==
    /\ files[name].status # "unreadable"
    /\ files' = [files EXCEPT ![name].status = "unreadable"]
    /\ UNCHANGED <<cache, selected_outlet_single, df_wide_original, df_combined_long,
                   selected_categories, df_filtered_long_grouped, df_filtered_wide,
                   metric_col, messages, outcome, table_is_current>>

FileRestored(name) ==
    /\ files[name].status # "ok"
    /\ files' = [files EXCEPT ![name].status = "ok"]
    /\ UNCHANGED <<cache, selected_outlet_single, df_wide_original, df_combined_long,
                   selected_categories, df_filtered_long_grouped, df_filtered_wide,
                   metric_col, messages, outcome, table_is_current>>

Selections == ToSet(OUTLET_OPTIONS)

InteractStep ==
    \E selection \in Selections, view_option \in VIEW_OPTIONS :
        Interact(selection, view_option)

Next ==
    \/ InteractStep
    \/ \E name \in FILE_NAMES : FileRemoved(name)
    \/ \E name \in FILE_NAMES : FileDamaged(name)
    \/ \E name \in FILE_NAMES : FileRestored(name)

Spec == Init /\ [][Next]_vars

\* The pipeline one function at a time, on the first run of a session
LoadData(selection) ==
    \E l \in {LoadPart(selection, files, cache)} :
        /\ outcome = "none"
        /\ selected_outlet_single' = selection
        /\ cache' = l.store
        /\ df_wide_original' = l.df
        /\ table_is_current' = l.current
        /\ messages' = l.msgs
        /\ outcome' = "loaded"
        /\ UNCHANGED <<files, df_combined_long, selected_categories,
                       df_filtered_long_grouped, df_filtered_wide, metric_col>>

TransformData ==
    /\ outcome = "loaded"
    /\ \E t \in {TransformPart(df_wide_original)} :
        /\ df_combined_long' = t.rows
        /\ messages' = messages \o t.msgs
        /\ outcome' = t.outcome
    /\ UNCHANGED <<files, cache, selected_outlet_single, df_wide_original,
                   table_is_current, selected_categories,
                   df_filtered_long_grouped, df_filtered_wide, metric_col>>

FilterAndGroup(view_option) ==
    /\ outcome = "transformed"
    /\ \E choice \in CategoryChoices(df_combined_long) :
       \E f \in {FilterPart(df_wide_original, df_combined_long, choice[1], choice[2])} :
        /\ metric_col' = MetricOf(view_option)
        /\ selected_categories' = f.categories
        /\ df_filtered_long_grouped' = f.grouped
        /\ df_filtered_wide' = f.wide
        /\ messages' = messages \o f.msgs
        /\ outcome' = f.outcome
    /\ UNCHANGED <<files, cache, selected_outlet_single, df_wide_original,
                   table_is_current, df_combined_long>>

PipelineNext ==
    \/ \E selection \in Selections : LoadData(selection)
    \/ TransformData
    \/ \E view_option \in VIEW_OPTIONS : FilterAndGroup(view_option)

PipelineSpec == PipelineInit /\ [][PipelineNext]_vars

---------------------------------------------------------------------------
(* Properties *)

\* transform_data returned in the last run, so df_combined_long is its result
TransformRan == outcome \in {"transformed", "stopped_empty", "stopped_nocat", "shown"}

\* load_data has just returned df_wide_original
LoadReturned == outcome = "loaded"

\* transform_data has just returned df_combined_long
TransformReturned == outcome \in {"transformed", "stopped_empty"}

Canonical == ToSet(age_order)

WideRows == 1..Len(df_wide_original.rows)

LongRows == 1..Len(df_combined_long)

QtyColumns == {c \in ToSet(df_wide_original.columns) : Contains(c, "Qty")}

ValueColumns == {c \in ToSet(df_wide_original.columns) : Contains(c, "Value")}

\* the outlets the last run asked load_data for, the ones whose file cannot
\* be read, and the others in order
Requested ==
    IF selected_outlet_single = AGGREGATE_OPTION THEN ALL_OUTLETS
    ELSE <<selected_outlet_single>>

Failing == {o \in ToSet(Requested) : files[OUTLET_FILES[o]].status # "ok"}

Readable == SelectSeq(Requested, LAMBDA o : o \notin Failing)

\* (C2) load_data isolates the failures of single sources: every requested
\* outlet whose file cannot be read (missing, or any other read error) gets a
\* warning or an error message, and the returned table is what load_data
\* returns for a catalog that never held the failing outlets: the rows of the
\* readable outlets in order, each tagged with its outlet code and otherwise
\* as in its file.
Thm_C2_LoadIsolatesFailures ==
    LoadReturned =>
        LET expected == Flatten([k \in 1..Len(Readable) |->
                            [i \in 1..Len(files[OUTLET_FILES[Readable[k]]].rows) |->
                                <<Readable[k], files[OUTLET_FILES[Readable[k]]].rows[i]>>]])
            rows == df_wide_original.rows
        IN  /\ \A o \in Failing : \E k \in 1..Len(messages) :
                  /\ messages[k].outlet = o
                  /\ messages[k].level \in {"warning", "error"}
            /\ df_wide_original =
                  LoadFrom(selected_outlet_single, Readable,
                           [o \in ToSet(Readable) |-> OUTLET_FILES[o]], files).df
            /\ Len(rows) = Len(expected)
            /\ \A j \in 1..Len(rows) :
                  /\ rows[j][COL_OUTLET] = <<expected[j][1]>>
                  /\ \A c \in DOMAIN expected[j][2] : rows[j][c] = expected[j][2][c]

\* (C2) witness: all outlets were requested, one file could not be read and
\* the rows of the other one were returned
Wit_C2_OneFailsOtherLoaded ==
    /\ outcome = "loaded"
    /\ selected_outlet_single = AGGREGATE_OPTION
    /\ Failing # {}
    /\ Len(df_wide_original.rows) > 0

\* (C1) Outer join: a key (Outlet, Category, Aging Bucket) that only one of
\* the two melted tables holds still has a row in the output of
\* transform_data, with the metric that is present kept and the other one 0.
CE_C1_OuterJoin ==
    TransformRan =>
        \A i \in WideRows :
            LET w == df_wide_original.rows[i]
            IN  /\ \A q \in QtyColumns :
                      (\A v \in ValueColumns : BucketOf(v, "Value") # BucketOf(q, "Qty")) =>
                          \E k \in LongRows :
                              /\ df_combined_long[k].Outlet = w[COL_OUTLET]
                              /\ df_combined_long[k].Category = w[COL_CATEGORY]
                              /\ df_combined_long[k].Bucket = Categorical(BucketOf(q, "Qty"))
                              /\ df_combined_long[k].Qty = fillna(w[q])
                              /\ df_combined_long[k].Value = <<0>>
                /\ \A v \in ValueColumns :
                      (\A q \in QtyColumns : BucketOf(q, "Qty") # BucketOf(v, "Value")) =>
                          \E k \in LongRows :
                              /\ df_combined_long[k].Outlet = w[COL_OUTLET]
                              /\ df_combined_long[k].Category = w[COL_CATEGORY]
                              /\ df_combined_long[k].Bucket = Categorical(BucketOf(v, "Value"))
                              /\ df_combined_long[k].Value = fillna(w[v])
                              /\ df_combined_long[k].Qty = <<0>>

KeyOf(r) == <<r.Outlet, r.Category, r.Bucket>>

\* (C3) Key uniqueness: no two rows of the output of transform_data have the
\* same (Outlet, Category, Aging Bucket), and every (outlet, category,
\* canonical bucket) of the wide table for which both metrics exist has
\* exactly one row, also when a Category label is on several rows of an outlet.
CE_C3_KeyUnique ==
    TransformRan =>
        /\ \A j, k \in LongRows :
              KeyOf(df_combined_long[j]) = KeyOf(df_combined_long[k]) => j = k
        /\ \A i \in WideRows : \A q \in QtyColumns : \A v \in ValueColumns :
              (BucketOf(q, "Qty") = BucketOf(v, "Value") /\ BucketOf(q, "Qty") \in Canonical) =>
                  Cardinality({k \in LongRows :
                      KeyOf(df_combined_long[k]) =
                          <<df_wide_original.rows[i][COL_OUTLET],
                            df_wide_original.rows[i][COL_CATEGORY],
                            BucketOf(q, "Qty")>>}) = 1

\* the sum of a category's cells in the metric columns of a bucket, over the
\* loaded wide table
SourceSum(category, bucket, marker) ==
    LET columns == {c \in ToSet(df_wide_original.columns) :
                       Contains(c, marker) /\ BucketOf(c, marker) = bucket}
        cell(i, c) == IF df_wide_original.rows[i][COL_CATEGORY] = category
                      THEN df_wide_original.rows[i][c] ELSE NaN
        RECURSIVE Total(_)
        Total(S) == IF S = {} THEN 0
                    ELSE LET x == CHOOSE y \in S : TRUE
                         IN  SumCells(<<cell(x[1], x[2])>>) + Total(S \ {x})
    IN  Total(WideRows \X columns)

\* the grouped table's sum for a key; 0 when it has no row for the key
GroupedSum(category, bucket, metric) ==
    LET hits == {g \in df_filtered_long_grouped :
                    g.Category = category /\ g.Bucket = bucket}
    IN  IF hits = {} THEN 0 ELSE (CHOOSE g \in hits : TRUE)[metric]

\* (C4) Aggregation: for every selected category and bucket of age_order the
\* grouped table holds the sum, over all loaded outlets, of the category's
\* Qty cells and of its Value cells for the bucket.
CE_C4_GroupedSums ==
    outcome = "shown" =>
        \A c \in ToSet(selected_categories) \ {NaN} : \A b \in Canonical :
            /\ GroupedSum(c, b, "Qty") = SourceSum(c, b, "Qty")
            /\ GroupedSum(c, b, "Value") = SourceSum(c, b, "Value")

\* (C5) No failure is fatal: a run ends with data shown or with a halt on an
\* empty result, never with an uncaught exception.
CE_C5_NoUncaughtError == outcome # "exception"

\* the first label of age_order that is a word of the column name, <<>> if none
FirstLabelIn(col) ==
    LET hits == {k \in 1..Len(age_order) : Contains(col, age_order[k][1])}
    IN  IF hits = {} THEN <<>>
        ELSE age_order[CHOOSE k \in hits : \A h \in hits : k <= h]

\* (C6) Buckets are recognized by substring: a Qty column and a Value column
\* in whose names the same label of age_order occurs give, for every source
\* row, an output row under that bucket with the two cells.
CE_C6_SubstringBuckets ==
    TransformRan =>
        \A i \in WideRows : \A q \in QtyColumns : \A v \in ValueColumns :
            (FirstLabelIn(q) # <<>> /\ FirstLabelIn(q) = FirstLabelIn(v)) =>
                \E k \in LongRows :
                    /\ df_combined_long[k].Outlet = df_wide_original.rows[i][COL_OUTLET]
                    /\ df_combined_long[k].Category = df_wide_original.rows[i][COL_CATEGORY]
                    /\ df_combined_long[k].Bucket = FirstLabelIn(q)
                    /\ df_combined_long[k].Qty = fillna(df_wide_original.rows[i][q])
                    /\ df_combined_long[k].Value = fillna(df_wide_original.rows[i][v])

\* (C7) The sentinel row: no row of the output of transform_data has the
\* Category "TOTAL", and no row of the grouped table has.
CE_C7_NoTotalRow ==
    /\ TransformRan =>
          \A k \in LongRows : df_combined_long[k].Category # <<"TOTAL">>
    /\ outcome = "shown" =>
          \A g \in df_filtered_long_grouped : g.Category # <<"TOTAL">>

\* a cell with 0 for a missing value
ZeroIfMissing(cell) == IF cell = <<>> THEN <<0>> ELSE cell

LongSum(category, bucket, metric) ==
    LET RECURSIVE Total(_)
        Total(S) == IF S = {} THEN 0
                    ELSE LET k == CHOOSE y \in S : TRUE
                         IN  df_combined_long[k][metric][1] + Total(S \ {k})
    IN  Total({k \in LongRows : /\ df_combined_long[k].Category = category
                                /\ df_combined_long[k].Category \in ToSet(selected_categories)
                                /\ df_combined_long[k].Bucket = bucket})

\* no cell of a row without a bucket of age_order is in a sum of the grouped
\* table or in a chart
GroupedLeavesOutMissingBuckets ==
    outcome = "shown" =>
        /\ \A g \in df_filtered_long_grouped :
              /\ g.Bucket \in Canonical
              /\ g.Qty = LongSum(g.Category, g.Bucket, "Qty")
              /\ g.Value = LongSum(g.Category, g.Bucket, "Value")
        /\ \A metric \in {"Qty", "Value"} :
              /\ \A g \in plot_treemap(df_filtered_long_grouped, metric) :
                    g.Bucket \in Canonical /\ g \in df_filtered_long_grouped
              /\ \A b \in Canonical :
                    \A g \in plot_horizontal_bar(df_filtered_long_grouped, metric, b) :
                        g.Bucket = b /\ g \in df_filtered_long_grouped

CE_C9_RebuiltEveryInteraction == outcome # "none" => table_is_current

\* (C9) amended: the table of an interaction is read from the source files
\* only when its outlet selection is loaded for the first time in the session,
\* and is then what the files hold at that moment; the stored value is never
\* dropped or refreshed, and every later interaction with the selection uses
\* it, whatever has become of the files.
Thm_C9_RebuiltOncePerSelection ==
    /\ [](outcome # "none" =>
             /\ selected_outlet_single \in DOMAIN cache
             /\ df_wide_original = cache[selected_outlet_single].df)
    /\ [][/\ \A sel \in DOMAIN cache : sel \in DOMAIN cache' /\ cache'[sel] = cache[sel]
          /\ \A sel \in (DOMAIN cache') \ DOMAIN cache :
                cache'[sel] = load_data_body(sel, files)]_vars

\* (C9) witness: an interaction used a table that lacks the rows of an outlet
\* whose file was readable at that interaction (every file is readable now)
Wit_C9_StaleTableServed ==
    /\ outcome = "shown"
    /\ ~ table_is_current
    /\ selected_outlet_single = AGGREGATE_OPTION
    /\ \A name \in FILE_NAMES : files[name].status = "ok"
    /\ Len(df_wide_original.rows) = 1

====
